---- MODULE Spec2Model ----
(***************************************************************************)
(* A model of the inline-markup parser (src/src/parser.rs) and of the      *)
(* per-character layout of TextSplit::split_text (src/src/lib.rs).         *)
(*                                                                         *)
(* Strings are sequences of one-character strings.  Option<T> is a         *)
(* sequence of length 0 (None) or 1 (Some(v)).                             *)
(***************************************************************************)
EXTENDS Integers, Sequences, FiniteSets, TLC

\* ------------------------------------------------------------------------
\* Bounds of the model
\* ------------------------------------------------------------------------

\* Every input of the parser is a concatenation of at most MaxPieces pieces.
MaxPieces == 3

\* split_text runs on at most MaxItems selected items.
MaxItems == 2

\* ------------------------------------------------------------------------
\* Option and string helpers
\* ------------------------------------------------------------------------

None == <<>>

Some(v) == <<v>>

IsSome(o) == o # <<>>

\* str::starts_with
StartsWith(s, p) == Len(s) >= Len(p) /\ SubSeq(s, 1, Len(p)) = p

\* s[i..] for a byte offset i (all characters of the model are ASCII)
From(s, i) == SubSeq(s, i + 1, Len(s))

MinOf(S) == CHOOSE i \in S : \A j \in S : i <= j

\* The byte offsets at which p occurs in s
Hits(s, p) == {i \in 0..(Len(s) - Len(p)) : SubSeq(s, i + 1, i + Len(p)) = p}

\* str::find(p): Some(offset of the first occurrence) or None
Find(s, p) == IF Hits(s, p) = {} THEN None ELSE Some(MinOf(Hits(s, p)))

\* str::contains
Contains(s, p) == Hits(s, p) # {}

\* str::split(sep).collect(): the pieces between the occurrences of the
\* one-character separator; always at least one piece
RECURSIVE Split(_, _)
Split(s, sep) ==
    LET f == Find(s, <<sep>>)
    IN  IF f = None THEN <<s>>
        ELSE <<SubSeq(s, 1, f[1])>> \o Split(From(s, f[1] + 1), sep)

\* char::is_ascii_hexdigit
IsHexDigit(c) ==
    c \in {"0", "1", "2", "3", "4", "5", "6", "7", "8", "9",
           "a", "b", "c", "d", "e", "f", "A", "B", "C", "D", "E", "F"}

IsDigit(c) == c \in {"0", "1", "2", "3", "4", "5", "6", "7", "8", "9"}

DigitVal(c) ==
    CASE c = "0" -> 0 [] c = "1" -> 1 [] c = "2" -> 2 [] c = "3" -> 3
      [] c = "4" -> 4 [] c = "5" -> 5 [] c = "6" -> 6 [] c = "7" -> 7
      [] c = "8" -> 8 [] c = "9" -> 9

RECURSIVE DecVal(_)
DecVal(s) ==
    IF s = <<>> THEN 0
    ELSE 10 * DecVal(SubSeq(s, 1, Len(s) - 1)) + DigitVal(s[Len(s)])

\* s.parse::<f32>().ok() on the characters of the model: of the strings over
\* the model's alphabet (digits, 's', 'B', 'I', 'n', '<', '#', '\', ',')
\* f32::from_str accepts exactly the non-empty digit strings.
ParseF32(s) ==
    IF s # <<>> /\ \A i \in 1..Len(s) : IsDigit(s[i]) THEN Some(DecVal(s))
    ELSE None

\* ------------------------------------------------------------------------
\* The matchers of parser.rs.  A matcher returns [ok |-> FALSE] (nom's
\* Err::Error) or [ok |-> TRUE, rest |-> remaining input, kind, arg].
\* ------------------------------------------------------------------------

NoMatch == [ok |-> FALSE]

Match(kind, arg, rest) == [ok |-> TRUE, kind |-> kind, arg |-> arg, rest |-> rest]

\* Faulty variant of StyleParams: an empty flags token gives (false, false)
\* instead of resetting bold and italic
StyleParams_EmptyFlagsFalse(content) ==
    LET parts == Split(content, ",")
        size  == Some(ParseF32(Tail(parts[1])))
        font  == IF Len(parts) >= 2
                 THEN Some(IF parts[2] = <<>> THEN None ELSE Some(parts[2]))
                 ELSE None
        flags == IF Len(parts) >= 3
                 THEN Some(Some(<<Contains(parts[3], <<"B">>),
                                  Contains(parts[3], <<"I">>)>>))
                 ELSE None
    IN  [size |-> size, font |-> font, flags |-> flags]

\* Faulty variant of StyleParams: a size token that does not parse counts as
\* not mentioned, only an empty one resets the size
StyleParams_MalformedAbsent(content) ==
    LET parts == Split(content, ",")
        token == Tail(parts[1])
        size  == IF token # <<>> /\ ParseF32(token) = None THEN None
                 ELSE Some(ParseF32(token))
        font  == IF Len(parts) >= 2
                 THEN Some(IF parts[2] = <<>> THEN None ELSE Some(parts[2]))
                 ELSE None
        flags == IF Len(parts) >= 3
                 THEN Some(IF parts[3] = <<>> THEN None
                           ELSE Some(<<Contains(parts[3], <<"B">>),
                                       Contains(parts[3], <<"I">>)>>))
                 ELSE None
    IN  [size |-> size, font |-> font, flags |-> flags]

\* The three optional sub-tokens of a style tag's content
StyleParams(content) ==
    LET parts == Split(content, ",")
        size  == Some(ParseF32(Tail(parts[1])))
        font  == IF Len(parts) >= 2
                 THEN Some(IF parts[2] = <<>> THEN None ELSE Some(parts[2]))
                 ELSE None
        flags == IF Len(parts) >= 3
                 THEN Some(IF parts[3] = <<>> THEN None
                           ELSE Some(<<Contains(parts[3], <<"B">>),
                                       Contains(parts[3], <<"I">>)>>))
                 ELSE None
    IN  [size |-> size, font |-> font, flags |-> flags]

\* Faulty variant of parse_optional_param: the content "s" is not refused,
\* so the bare <s> is taken as a parameterized style tag
parse_optional_param_TakesBare(input) ==
    IF ~StartsWith(input, <<"<">>) THEN NoMatch
    ELSE LET body == Tail(input)
             gt   == Find(body, <<">">>)
         IN  IF gt = None THEN NoMatch
             ELSE LET content == SubSeq(body, 1, gt[1])
                      rest    == From(body, gt[1] + 1)
                  IN  IF ~StartsWith(content, <<"s">>)
                      THEN NoMatch
                      ELSE Match("UpdateStyle", StyleParams(content), rest)

parse_optional_param(input) ==
    IF ~StartsWith(input, <<"<">>) THEN NoMatch
    ELSE LET body == Tail(input)
             gt   == Find(body, <<">">>)
         IN  IF gt = None THEN NoMatch
             ELSE LET content == SubSeq(body, 1, gt[1])
                      rest    == From(body, gt[1] + 1)
                  IN  IF ~StartsWith(content, <<"s">>) \/ content = <<"s">>
                      THEN NoMatch
                      ELSE Match("UpdateStyle", StyleParams(content), rest)

\* tag(t) mapped to an action without payload
parse_tag(input, t, kind) ==
    IF StartsWith(input, t) THEN Match(kind, None, From(input, Len(t)))
    ELSE NoMatch

\* The length of the longest prefix of s made of hex digits
RECURSIVE HexRun(_)
HexRun(s) ==
    IF s # <<>> /\ IsHexDigit(s[1]) THEN 1 + HexRun(Tail(s)) ELSE 0

parse_color(input) ==
    IF ~StartsWith(input, <<"<", "#">>) THEN NoMatch
    ELSE LET body == From(input, 2)
             h    == HexRun(body)
         IN  IF h >= 1 /\ StartsWith(From(body, h), <<">">>)
             THEN Match("UpdateColor", SubSeq(body, 1, h), From(body, h + 1))
             ELSE NoMatch

\* Faulty variant of TextSplitPos: the text ends at the first '<' of any kind
TextSplitPos_AnyBracket(input) ==
    LET b == Find(input, <<"<">>)
    IN  IF b = None THEN Len(input) ELSE b[1]

\* The offset at which parse_text_until_tag splits a non-empty input
TextSplitPos(input) ==
    LET s    == Find(input, <<"<", "s">>)
        o    == Find(input, <<"<", "#">>)
        c    == Find(input, <<"<", "#", ">">>)
        s_pos           == IF s = None THEN Len(input) ELSE s[1]
        color_open_pos  == IF o = None THEN Len(input)
                           ELSE IF StartsWith(From(input, o[1]), <<"<", "#", ">">>)
                                THEN Len(input) ELSE o[1]
        color_close_pos == IF c = None THEN Len(input) ELSE c[1]
    IN  MinOf({s_pos, color_open_pos, color_close_pos})

\* Faulty variant of parse_text_until_tag: the character the text ends at is
\* consumed with the text and not returned
parse_text_until_tag_DropsOpener(input) ==
    IF input = <<>> THEN NoMatch
    ELSE LET pos == TextSplitPos(input)
         IN  Match("AppendText", SubSeq(input, 1, pos), From(input, pos + 1))

parse_text_until_tag(input) ==
    IF input = <<>> THEN NoMatch
    ELSE LET pos == TextSplitPos(input)
         IN  Match("AppendText", SubSeq(input, 1, pos), From(input, pos))

\* alt((...)): the first matcher that succeeds
parse_action(input) ==
    LET a1 == parse_optional_param(input)
        a2 == parse_tag(input, <<"<", "s", ">">>, "ResetStyle")
        a3 == parse_color(input)
        a4 == parse_tag(input, <<"<", "#", ">">>, "ResetColor")
        a5 == parse_text_until_tag(input)
    IN  IF a1.ok THEN a1
        ELSE IF a2.ok THEN a2
        ELSE IF a3.ok THEN a3
        ELSE IF a4.ok THEN a4
        ELSE a5

\* ------------------------------------------------------------------------
\* The fold of parse_markup
\* ------------------------------------------------------------------------

\* Style::default()
DefaultStyle ==
    [size |-> None, font |-> None, is_bold |-> None, is_italic |-> None,
     color |-> None]

TextElement(style, text) ==
    [size |-> style.size, font |-> style.font, is_bold |-> style.is_bold,
     is_italic |-> style.is_italic, color |-> style.color, text |-> text]

\* Action::UpdateStyle((size, font, flags)) applied to the style
UpdateStyle(style, p) ==
    LET s1 == IF IsSome(p.size) THEN [style EXCEPT !.size = p.size[1]] ELSE style
        s2 == IF IsSome(p.font) THEN [s1 EXCEPT !.font = p.font[1]] ELSE s1
    IN  IF IsSome(p.flags)
        THEN IF IsSome(p.flags[1])
             THEN [s2 EXCEPT !.is_bold = Some(p.flags[1][1][1]),
                             !.is_italic = Some(p.flags[1][1][2])]
             ELSE [s2 EXCEPT !.is_bold = None, !.is_italic = None]
        ELSE s2

\* Action::ResetStyle
ResetStyle(style) ==
    [style EXCEPT !.size = None, !.font = None, !.is_bold = None,
                  !.is_italic = None]

\* Action::AppendText(text): the element list after the action
AppendText(els, style, text) ==
    IF text # <<>> THEN Append(els, TextElement(style, text)) ELSE els

\* Faulty variant of Fold: <#> resets the whole style, not the color only
Fold_ColorResetClearsAll(acc, action) ==
    CASE action.kind = "UpdateStyle" ->
            [acc EXCEPT !.style = UpdateStyle(acc.style, action.arg)]
      [] action.kind = "ResetStyle" ->
            [acc EXCEPT !.style = ResetStyle(acc.style)]
      [] action.kind = "UpdateColor" ->
            [acc EXCEPT !.style.color = Some(action.arg)]
      [] action.kind = "ResetColor" ->
            [acc EXCEPT !.style = DefaultStyle]
      [] action.kind = "AppendText" ->
            [acc EXCEPT !.elements = AppendText(acc.elements, acc.style, action.arg)]

\* Faulty variant of Fold: a color tag closes the run before it, emitting
\* the text gathered since the last tag even when there is none
Fold_FlushAtTag(acc, action) ==
    CASE action.kind = "UpdateStyle" ->
            [acc EXCEPT !.style = UpdateStyle(acc.style, action.arg)]
      [] action.kind = "ResetStyle" ->
            [acc EXCEPT !.style = ResetStyle(acc.style)]
      [] action.kind = "UpdateColor" ->
            [acc EXCEPT !.elements = Append(@, TextElement(acc.style, <<>>)),
                        !.style.color = Some(action.arg)]
      [] action.kind = "ResetColor" ->
            [acc EXCEPT !.elements = Append(@, TextElement(acc.style, <<>>)),
                        !.style.color = None]
      [] action.kind = "AppendText" ->
            [acc EXCEPT !.elements = AppendText(acc.elements, acc.style, action.arg)]

\* The closure folded over the actions: acc = [elements, style]
Fold(acc, action) ==
    CASE action.kind = "UpdateStyle" ->
            [acc EXCEPT !.style = UpdateStyle(acc.style, action.arg)]
      [] action.kind = "ResetStyle" ->
            [acc EXCEPT !.style = ResetStyle(acc.style)]
      [] action.kind = "UpdateColor" ->
            [acc EXCEPT !.style.color = Some(action.arg)]
      [] action.kind = "ResetColor" ->
            [acc EXCEPT !.style.color = None]
      [] action.kind = "AppendText" ->
            [acc EXCEPT !.elements = AppendText(acc.elements, acc.style, action.arg)]

\* ------------------------------------------------------------------------
\* parse_markup as a state machine: one step per iteration of fold_many0
\* ------------------------------------------------------------------------

VARIABLES
    input,      \* the argument of parse_markup
    rem,        \* the input not yet consumed
    acc,        \* the accumulator of the fold: [elements, style]
    last,       \* the action matched by the last iteration ("" before the first)
    result      \* "run" while folding, then "Ok" or "Err"

\* The state of TextSplit::split_text and of the host document it edits
VARIABLES
    objects,            \* the host items: handle -> the item's record
    selected,           \* edit_section.get_selected_objects()
    idx,                \* phase 1: the index in selected of the item read next
    creation_infos,     \* (alias, layer, start, length) of every placement
    objects_to_delete,  \* the handles of the items that were laid out
    ci,                 \* phase 2: the index of the creation info created next
    retries,            \* how often the creation of creation_infos[ci] has failed
    created,            \* the host items created so far, in creation order
    di,                 \* the index in objects_to_delete of the item deleted next
    ret                 \* "run" while split_text runs, then "Ok" or "Err"

pvars == <<input, rem, acc, last, result>>

svars == <<objects, selected, idx, creation_infos, objects_to_delete, ci,
           retries, created, di, ret>>

vars == <<pvars, svars>>

\* The pieces the inputs are made of: plain text, the tags of the grammar,
\* an unrecognized tag, and the openers and closer on their own.
Pieces ==
    { <<"I">>,
      <<"<", "I", ">">>,
      <<"<", "s", ">">>,
      <<"<", "#", ">">>,
      <<"<", "#", "1", "B", ">">>,
      <<"<", "s", "1", ",", "I", ",", "B", ">">>,
      <<"<", "s", "2", ">">>,
      <<"<", "s", ",", ",", ">">>,
      <<"<", "s", "I", ",", "B", ",", "I", ">">>,
      <<"<", "s">>,
      <<"<", "#">>,
      <<">">> }

RECURSIVE Concats(_)
Concats(n) ==
    IF n = 0 THEN {<<>>}
    ELSE LET prev == Concats(n - 1)
         IN  prev \cup {p \o q : p \in prev, q \in Pieces}

Inputs == Concats(MaxPieces)

Init ==
    /\ input \in Inputs
    /\ rem = input
    /\ acc = [elements |-> <<>>, style |-> DefaultStyle]
    /\ last = ""
    /\ result = "run"
    /\ objects = <<>>
    /\ selected = <<>>
    /\ idx = 1
    /\ creation_infos = <<>>
    /\ objects_to_delete = <<>>
    /\ ci = 1
    /\ retries = 0
    /\ created = <<>>
    /\ di = 1
    /\ ret = "idle"

\* The next iteration matches an action of this kind and consumes input
Matches(kind) ==
    LET a == parse_action(rem)
    IN  a.ok /\ a.kind = kind /\ Len(a.rest) < Len(rem)

\* An iteration whose matcher consumed input: the action is folded in
StepUpdateStyle ==
    /\ result = "run"
    /\ Matches("UpdateStyle")
    /\ acc' = Fold(acc, parse_action(rem))
    /\ rem' = parse_action(rem).rest
    /\ last' = "UpdateStyle"
    /\ UNCHANGED <<input, result, svars>>

StepResetStyle ==
    /\ result = "run"
    /\ Matches("ResetStyle")
    /\ acc' = Fold(acc, parse_action(rem))
    /\ rem' = parse_action(rem).rest
    /\ last' = "ResetStyle"
    /\ UNCHANGED <<input, result, svars>>

StepUpdateColor ==
    /\ result = "run"
    /\ Matches("UpdateColor")
    /\ acc' = Fold(acc, parse_action(rem))
    /\ rem' = parse_action(rem).rest
    /\ last' = "UpdateColor"
    /\ UNCHANGED <<input, result, svars>>

StepResetColor ==
    /\ result = "run"
    /\ Matches("ResetColor")
    /\ acc' = Fold(acc, parse_action(rem))
    /\ rem' = parse_action(rem).rest
    /\ last' = "ResetColor"
    /\ UNCHANGED <<input, result, svars>>

StepAppendText ==
    /\ result = "run"
    /\ Matches("AppendText")
    /\ acc' = Fold(acc, parse_action(rem))
    /\ rem' = parse_action(rem).rest
    /\ last' = "AppendText"
    /\ UNCHANGED <<input, result, svars>>

\* fold_many0's guard: a matcher that succeeds without consuming anything
\* ends the fold with Err(ErrorKind::Many0), which parse_markup returns
StepNoProgress ==
    /\ result = "run"
    /\ LET a == parse_action(rem)
       IN  a.ok /\ Len(a.rest) = Len(rem)
    /\ result' = "Err"
    /\ UNCHANGED <<input, rem, acc, last, svars>>

\* No matcher succeeds: the fold ends and parse_markup looks at the remainder
Finish ==
    /\ result = "run"
    /\ ~parse_action(rem).ok
    /\ result' = IF rem = <<>> THEN "Ok" ELSE "Err"
    /\ UNCHANGED <<input, rem, acc, last, svars>>

Next ==
    \/ StepUpdateStyle
    \/ StepResetStyle
    \/ StepUpdateColor
    \/ StepResetColor
    \/ StepAppendText
    \/ StepNoProgress
    \/ Finish

Spec == Init /\ [][Next]_vars

\* ------------------------------------------------------------------------
\* parse_markup as a function: the fold run to its end
\* ------------------------------------------------------------------------

RECURSIVE fold_many0(_, _)
fold_many0(i, a) ==
    LET m == parse_action(i)
    IN  IF ~m.ok THEN [ok |-> TRUE, rest |-> i, acc |-> a]
        ELSE IF Len(m.rest) = Len(i) THEN [ok |-> FALSE]
        ELSE fold_many0(m.rest, Fold(a, m))

parse_markup(text) ==
    LET r == fold_many0(text, [elements |-> <<>>, style |-> DefaultStyle])
    IN  IF r.ok /\ r.rest = <<>>
        THEN [ok |-> TRUE, elements |-> r.acc.elements]
        ELSE [ok |-> FALSE]

\* ------------------------------------------------------------------------
\* parse_alignment.  The characters of the descriptor are written in ASCII:
\* "L" for U+5DE6 (left), "R" for U+53F3 (right), "T" for U+4E0A (top),
\* "D" for U+4E0B (bottom), "V" "W" for U+7E26 U+66F8 (vertical writing),
\* "M" for U+4E2D (middle), which parse_alignment does not look for.
\* ------------------------------------------------------------------------

\* Faulty variant of parse_alignment: Right is looked for before Left and
\* Bottom before Top
parse_alignment_RightFirst(desc) ==
    [hdir |-> IF Contains(desc, <<"R">>) THEN "Right"
              ELSE IF Contains(desc, <<"L">>) THEN "Left"
              ELSE "Mid",
     vdir |-> IF Contains(desc, <<"D">>) THEN "Bottom"
              ELSE IF Contains(desc, <<"T">>) THEN "Top"
              ELSE "Center",
     is_vert |-> Contains(desc, <<"V", "W">>)]

parse_alignment(desc) ==
    [hdir |-> IF Contains(desc, <<"L">>) THEN "Left"
              ELSE IF Contains(desc, <<"R">>) THEN "Right"
              ELSE "Mid",
     vdir |-> IF Contains(desc, <<"T">>) THEN "Top"
              ELSE IF Contains(desc, <<"D">>) THEN "Bottom"
              ELSE "Center",
     is_vert |-> Contains(desc, <<"V", "W">>)]

\* ------------------------------------------------------------------------
\* The layout of split_text.  An f32 is written in hundredths, the precision
\* of the "{:.2}" the sizes and positions are formatted with: every number
\* of the model is a whole number, so the f32 arithmetic on it is exact.
\* ------------------------------------------------------------------------

F32(n) == n * 100

Max(a, b) == IF a >= b THEN a ELSE b

\* The text of a run that split_text treats as a line break: "\\n"
NewlineEscape == <<"\\", "n">>

\* el.size.unwrap_or(_size)
ResolvedSize(el, base) == IF IsSome(el.size) THEN F32(el.size[1]) ELSE base

\* Pass 1: m = [w, w_temp, h, h_temp] folded over the runs
RECURSIVE Measure(_, _, _, _, _)
Measure(els, m, base, kern, lnsp) ==
    IF els = <<>> THEN m
    ELSE LET el == Head(els)
         IN  IF el.text = NewlineEscape
             THEN Measure(Tail(els),
                          [w |-> Max(m.w, m.w_temp), w_temp |-> 0,
                           h |-> m.h + m.h_temp + lnsp, h_temp |-> 0],
                          base, kern, lnsp)
             ELSE LET size == ResolvedSize(el, base)
                  IN  Measure(Tail(els),
                              [m EXCEPT !.w_temp = @ + size + kern,
                                        !.h_temp = Max(@, size)],
                              base, kern, lnsp)

\* match alignment.hdir: what is subtracted from the anchor's x
HOffset(hdir, w) ==
    CASE hdir = "Left" -> 0
      [] hdir = "Mid" -> w \div 2
      [] hdir = "Right" -> w

\* match alignment.vdir: what is subtracted from the anchor's y
VOffset(vdir, h) ==
    CASE vdir = "Top" -> 0
      [] vdir = "Center" -> h \div 2
      [] vdir = "Bottom" -> h

\* Faulty variant of Alias: a run without an italic flag is upright, whatever
\* the item says
Alias_ItalicOff(item, el, c, x, y) ==
    [start |-> item.start,
     end |-> item.end,
     size |-> ResolvedSize(el, F32(item.size[1])),
     font |-> IF IsSome(el.font) THEN el.font[1] ELSE item.font,
     color |-> IF IsSome(el.color) THEN el.color[1] ELSE item.color,
     subcolor |-> item.subcolor,
     style |-> item.style,
     bold |-> IF IsSome(el.is_bold)
              THEN (IF el.is_bold[1] THEN "1" ELSE "0") ELSE item.bold,
     italic |-> IF IsSome(el.is_italic)
                THEN (IF el.is_italic[1] THEN "1" ELSE "0") ELSE "0",
     text |-> c,
     ox |-> x,
     oy |-> y,
     oz |-> F32(item.z),
     alpha |-> item.alpha,
     blend |-> item.blend]

\* The alias of one character: TEXT_ALIAS_TEMPLATE with its placeholders
\* replaced, as the record of the values put in
Alias(item, el, c, x, y) ==
    [start |-> item.start,
     end |-> item.end,
     size |-> ResolvedSize(el, F32(item.size[1])),
     font |-> IF IsSome(el.font) THEN el.font[1] ELSE item.font,
     color |-> IF IsSome(el.color) THEN el.color[1] ELSE item.color,
     subcolor |-> item.subcolor,
     style |-> item.style,
     bold |-> IF IsSome(el.is_bold)
              THEN (IF el.is_bold[1] THEN "1" ELSE "0") ELSE item.bold,
     italic |-> IF IsSome(el.is_italic)
                THEN (IF el.is_italic[1] THEN "1" ELSE "0") ELSE item.italic,
     text |-> c,
     ox |-> x,
     oy |-> y,
     oz |-> F32(item.z),
     alpha |-> item.alpha,
     blend |-> item.blend]

\* Faulty variant of EmitChars: the pen advances by the size without the
\* kerning
RECURSIVE EmitChars_NoKerning(_, _, _, _)
EmitChars_NoKerning(item, el, chars, pen) ==
    IF chars = <<>> THEN pen
    ELSE LET size == ResolvedSize(el, F32(item.size[1]))
             info == [alias |-> Alias(item, el, Head(chars), pen.x, pen.y),
                      layer |-> pen.layer,
                      start |-> item.start,
                      length |-> item.end - item.start]
         IN  EmitChars_NoKerning(item, el, Tail(chars),
                                 [pen EXCEPT !.out = Append(@, info),
                                             !.x = @ + size,
                                             !.layer = @ + 1])

\* Pass 2, the characters of one run: pen = [x, y, layer, out]
RECURSIVE EmitChars(_, _, _, _)
EmitChars(item, el, chars, pen) ==
    IF chars = <<>> THEN pen
    ELSE LET size == ResolvedSize(el, F32(item.size[1]))
             info == [alias |-> Alias(item, el, Head(chars), pen.x, pen.y),
                      layer |-> pen.layer,
                      start |-> item.start,
                      length |-> item.end - item.start]
         IN  EmitChars(item, el, Tail(chars),
                       [pen EXCEPT !.out = Append(@, info),
                                   !.x = @ + size + F32(item.kern),
                                   !.layer = @ + 1])

\* Faulty variant of EmitRuns: a line break takes a layer as a character does
RECURSIVE EmitRuns_BreakTakesLayer(_, _, _, _)
EmitRuns_BreakTakesLayer(item, els, x0, pen) ==
    IF els = <<>> THEN pen
    ELSE LET el == Head(els)
         IN  IF el.text = NewlineEscape
             THEN EmitRuns_BreakTakesLayer(item, Tail(els), x0,
                           [pen EXCEPT !.x = x0,
                                       !.y = @ + F32(item.size[1]) + F32(item.lnsp),
                                       !.layer = @ + 1])
             ELSE EmitRuns_BreakTakesLayer(item, Tail(els), x0,
                                           EmitChars(item, el, el.text, pen))

\* Pass 2, the runs: x0 is the x a line starts at
RECURSIVE EmitRuns(_, _, _, _)
EmitRuns(item, els, x0, pen) ==
    IF els = <<>> THEN pen
    ELSE LET el == Head(els)
         IN  IF el.text = NewlineEscape
             THEN EmitRuns(item, Tail(els), x0,
                           [pen EXCEPT !.x = x0,
                                       !.y = @ + F32(item.size[1]) + F32(item.lnsp)])
             ELSE EmitRuns(item, Tail(els), x0, EmitChars(item, el, el.text, pen))

\* The anchor of the item: "X" and "Y" default to "0.0" when they cannot be read
AnchorX(item) == IF IsSome(item.x) THEN F32(item.x[1]) ELSE 0

AnchorY(item) == IF IsSome(item.y) THEN F32(item.y[1]) ELSE 0

\* The measured extents after the match on the alignment: [w, h]
Offsets(item, els) ==
    LET m  == Measure(els, [w |-> 0, w_temp |-> 0, h |-> 0, h_temp |-> 0],
                      F32(item.size[1]), F32(item.kern), F32(item.lnsp))
        al == parse_alignment(item.align)
    IN  [w |-> HOffset(al.hdir, m.w), h |-> VOffset(al.vdir, m.h)]

\* The creation infos of one item, in the order they are pushed
Placements(item, els) ==
    LET o  == Offsets(item, els)
        x0 == AnchorX(item) - o.w
        y0 == AnchorY(item) - o.h
    IN  EmitRuns(item, els, x0,
                 [x |-> x0, y |-> y0, layer |-> item.layer + 1, out |-> <<>>]).out

\* ------------------------------------------------------------------------
\* The host document
\* ------------------------------------------------------------------------

\* Two frame ranges [s1, s1 + l1] and [s2, s2 + l2] overlap
Overlap(s1, l1, s2, l2) == s1 <= s2 + l2 /\ s2 <= s1 + l1

\* edit_section.create_object_from_alias fails: the layer is occupied in the
\* frame range by an item of the document or by an item created before
HostCreateFails(layer, frame, length) ==
    \/ \E h \in DOMAIN objects :
          /\ objects[h].alive
          /\ objects[h].layer = layer
          /\ Overlap(objects[h].start, objects[h].end - objects[h].start, frame, length)
    \/ \E k \in DOMAIN created :
          /\ created[k].layer = layer
          /\ Overlap(created[k].start, created[k].length, frame, length)

\* The texts of the selected items
Texts ==
    { <<"A", "B">>,
      <<"A", "<", "s", "2", ">", "B", "C">>,
      <<"A", "<", "#", ">", "\\", "n", "<", "#", ">", "B", "C">>,
      <<"A", "\\", "n", "B">>,
      <<"<", "s", "2", ">", "A", "B", "<", "s", ">", "\\", "n", "<", "#", "1", "B", ">", "C">>,
      <<"<", "s", "1", ",", "I", ",", "B", ">", "A">>,
      <<"A", "<", "#">>,
      <<>> }

\* The alignment descriptors of the selected items
Aligns ==
    { <<>>, <<"L", "T">>, <<"R", "D">>, <<"M", "M">>, <<"L", "R", "D", "T">>,
      <<"R">>, <<"D">>, <<"V", "W", "L">> }

\* The kerning and the line spacing of the selected items
Kernings == {0, 2}

LineSpacings == {0, 3}

\* A text item of the host document on the given layer
HostItem(layer, text, size, align, kern, lnsp) ==
    [text |-> text, size |-> size, kern |-> kern, lnsp |-> lnsp,
     font |-> <<"F">>, color |-> <<"0">>, subcolor |-> <<"9">>,
     style |-> "deco", bold |-> "0", italic |-> "1",
     x |-> Some(0), y |-> Some(0), z |-> 0, alpha |-> "alpha", blend |-> "blend",
     align |-> align, layer |-> layer, start |-> 0, end |-> 10, alive |-> TRUE]

\* What is selected: items with a text, an item whose text cannot be read
\* (not a text item), an item whose size cannot be read
ItemKinds ==
    {[text |-> Some(t), size |-> Some(10)] : t \in Texts}
        \cup {[text |-> None, size |-> Some(10)],
              [text |-> Some(<<"A", "B">>), size |-> None]}

InitSplit ==
    /\ input = <<>>
    /\ rem = <<>>
    /\ acc = [elements |-> <<>>, style |-> DefaultStyle]
    /\ last = ""
    /\ result = "idle"
    /\ \E n \in 1..MaxItems :
          \E kinds \in [1..n -> ItemKinds], al \in Aligns, k \in Kernings,
             ls \in LineSpacings :
             objects = [i \in 1..n |->
                           HostItem(i - 1, kinds[i].text, kinds[i].size, al, k, ls)]
    /\ selected = [i \in 1..Len(objects) |-> i]
    /\ idx = 1
    /\ creation_infos = <<>>
    /\ objects_to_delete = <<>>
    /\ ci = 1
    /\ retries = 0
    /\ created = <<>>
    /\ di = 1
    /\ ret = "run"

\* Phase 1 is at an item
Reading == ret = "run" /\ idx <= Len(selected)

\* Phase 1, the text cannot be read: continue
SkipObject ==
    /\ Reading
    /\ objects[selected[idx]].text = None
    /\ idx' = idx + 1
    /\ UNCHANGED <<pvars, objects, selected, creation_infos, objects_to_delete,
                   ci, retries, created, di, ret>>

\* Phase 1, parse_markup fails: split_text returns the error
FailParse ==
    /\ Reading
    /\ objects[selected[idx]].text # None
    /\ ~parse_markup(objects[selected[idx]].text[1]).ok
    /\ ret' = "Err"
    /\ UNCHANGED <<pvars, objects, selected, idx, creation_infos,
                   objects_to_delete, ci, retries, created, di>>

\* Phase 1, an attribute cannot be read: split_text returns the error
FailAttr ==
    /\ Reading
    /\ objects[selected[idx]].text # None
    /\ parse_markup(objects[selected[idx]].text[1]).ok
    /\ objects[selected[idx]].size = None
    /\ ret' = "Err"
    /\ UNCHANGED <<pvars, objects, selected, idx, creation_infos,
                   objects_to_delete, ci, retries, created, di>>

\* Phase 1, the item is laid out
LayoutObject ==
    /\ Reading
    /\ LET item == objects[selected[idx]]
       IN  /\ item.text # None
           /\ parse_markup(item.text[1]).ok
           /\ item.size # None
           /\ creation_infos' =
                 creation_infos \o Placements(item, parse_markup(item.text[1]).elements)
    /\ objects_to_delete' = Append(objects_to_delete, selected[idx])
    /\ idx' = idx + 1
    /\ UNCHANGED <<pvars, objects, selected, ci, retries, created, di, ret>>

\* Faulty variant of Creating: an item is created as soon as its creation
\* info is there, while phase 1 is still reading the later items
Creating_Eager == ret = "run" /\ ci <= Len(creation_infos)

\* Phase 2 is at a creation info
Creating == ret = "run" /\ idx > Len(selected) /\ ci <= Len(creation_infos)

\* create_object_from_alias_incremental, the host creates the item
CreateObject ==
    /\ Creating
    /\ LET info == creation_infos[ci]
       IN  /\ ~HostCreateFails(info.layer + retries, info.start, info.length)
           /\ created' = Append(created, [info EXCEPT !.layer = @ + retries])
    /\ ci' = ci + 1
    /\ retries' = 0
    /\ UNCHANGED <<pvars, objects, selected, idx, creation_infos,
                   objects_to_delete, di, ret>>

\* Faulty variant of CreateRetry: the next layer tried is the one below
CreateRetry_Down ==
    /\ Creating
    /\ LET info == creation_infos[ci]
       IN  HostCreateFails(info.layer + retries, info.start, info.length)
    /\ retries' = retries - 1
    /\ UNCHANGED <<pvars, objects, selected, idx, creation_infos,
                   objects_to_delete, ci, created, di, ret>>

\* Faulty variant of CreateRetry: a refused creation is given up and the
\* loop goes on with the next creation info
CreateRetry_Drop ==
    /\ Creating
    /\ LET info == creation_infos[ci]
       IN  HostCreateFails(info.layer + retries, info.start, info.length)
    /\ ci' = ci + 1
    /\ retries' = 0
    /\ UNCHANGED <<pvars, objects, selected, idx, creation_infos,
                   objects_to_delete, created, di, ret>>

\* create_object_from_alias_incremental, the host refuses: the next layer
CreateRetry ==
    /\ Creating
    /\ LET info == creation_infos[ci]
       IN  HostCreateFails(info.layer + retries, info.start, info.length)
    /\ retries' = retries + 1
    /\ UNCHANGED <<pvars, objects, selected, idx, creation_infos,
                   objects_to_delete, ci, created, di, ret>>

\* Faulty variant of Deleting: the loop over objects_to_delete does not wait
\* for the loop over the creation infos
Deleting_Early ==
    /\ ret = "run"
    /\ idx > Len(selected)
    /\ di <= Len(objects_to_delete)

\* The loop over objects_to_delete is at an item
Deleting ==
    /\ ret = "run"
    /\ idx > Len(selected)
    /\ ci > Len(creation_infos)
    /\ di <= Len(objects_to_delete)

DeleteObject ==
    /\ Deleting
    /\ objects' = [objects EXCEPT ![objects_to_delete[di]].alive = FALSE]
    /\ di' = di + 1
    /\ UNCHANGED <<pvars, selected, idx, creation_infos, objects_to_delete, ci,
                   retries, created, ret>>

ReturnOk ==
    /\ ret = "run"
    /\ idx > Len(selected)
    /\ ci > Len(creation_infos)
    /\ di > Len(objects_to_delete)
    /\ ret' = "Ok"
    /\ UNCHANGED <<pvars, objects, selected, idx, creation_infos,
                   objects_to_delete, ci, retries, created, di>>

NextSplit ==
    \/ SkipObject
    \/ FailParse
    \/ FailAttr
    \/ LayoutObject
    \/ CreateObject
    \/ CreateRetry
    \/ DeleteObject
    \/ ReturnOk

SpecSplit == InitSplit /\ [][NextSplit]_vars

\* The distance between the layers of two selected items that follow each
\* other
LayerGaps == {1, 2}

\* The documents phase 2 is studied on: the items lie one or two layers
\* apart, so that a requested layer may be occupied at the start or in the
\* middle of an item's placements.  The alignment, the kerning and the line
\* spacing have no part in the layers and are left at one value.
InitLayers ==
    /\ input = <<>>
    /\ rem = <<>>
    /\ acc = [elements |-> <<>>, style |-> DefaultStyle]
    /\ last = ""
    /\ result = "idle"
    /\ \E n \in 1..MaxItems :
          \E kinds \in [1..n -> ItemKinds], g \in LayerGaps :
             objects = [i \in 1..n |->
                           HostItem((i - 1) * g, kinds[i].text, kinds[i].size,
                                    <<>>, 0, 0)]
    /\ selected = [i \in 1..Len(objects) |-> i]
    /\ idx = 1
    /\ creation_infos = <<>>
    /\ objects_to_delete = <<>>
    /\ ci = 1
    /\ retries = 0
    /\ created = <<>>
    /\ di = 1
    /\ ret = "run"

\* split_text is sequential code that runs on when called: the loop of
\* phase 2 over the creation infos, and the recursion in it, take the step
\* they are at
SpecSplitFair ==
    InitLayers /\ [][NextSplit]_vars /\ WF_vars(CreateObject) /\ WF_vars(CreateRetry)

\* ------------------------------------------------------------------------
\* Definitions the properties are stated with
\* ------------------------------------------------------------------------

elements == acc.elements

style == acc.style

\* The texts of the runs, concatenated in list order
RECURSIVE ConcatTexts(_)
ConcatTexts(els) ==
    IF els = <<>> THEN <<>> ELSE Head(els).text \o ConcatTexts(Tail(els))

\* The positions of s, from position 3 on, that hold a '>'
Closers(s) == {k \in 3..Len(s) : s[k] = ">"}

\* The length of the tag of the grammar that s begins with, 0 when it begins
\* with none: '<s' up to the first '>' (the bare <s> and the parameterized
\* style tag), or '<#' followed by hex digits only (possibly none) and '>'.
TagLen(s) ==
    IF Len(s) >= 3 /\ s[1] = "<" /\ s[2] = "s" /\ Closers(s) # {}
    THEN MinOf(Closers(s))
    ELSE IF /\ Len(s) >= 3 /\ s[1] = "<" /\ s[2] = "#" /\ Closers(s) # {}
            /\ \A j \in 3..(MinOf(Closers(s)) - 1) : IsHexDigit(s[j])
         THEN MinOf(Closers(s))
         ELSE 0

\* The input with every tag of the grammar removed, scanning left to right
RECURSIVE Strip(_)
Strip(s) ==
    IF s = <<>> THEN <<>>
    ELSE IF TagLen(s) > 0 THEN Strip(From(s, TagLen(s)))
    ELSE <<s[1]>> \o Strip(Tail(s))

\* The size, font, bold and italic of a style or of a run
NonColor(r) == <<r.size, r.font, r.is_bold, r.is_italic>>

\* The next iteration consumes input with an action of this kind
Takes(kind) == result = "run" /\ Matches(kind)

\* ------------------------------------------------------------------------
\* C1
\* ------------------------------------------------------------------------

C2_NothingDropped ==
    /\ result = "Ok" => (rem = <<>> /\ ConcatTexts(elements) = Strip(input))
    /\ (result # "run" /\ rem # <<>>) => result = "Err"

\* Ok with two runs around tags that were removed
C2_Witness ==
    /\ result = "Ok"
    /\ Len(elements) = 2
    /\ Len(ConcatTexts(elements)) + 3 <= Len(input)

\* ------------------------------------------------------------------------
\* C3
\* ------------------------------------------------------------------------

\* s begins with a tag-like substring '<...>' (no '<' or '>' inside) that
\* matches neither the style-tag grammar nor the color grammar
UnrecognizedHead(s) ==
    /\ Len(s) >= 2
    /\ s[1] = "<"
    /\ \E k \in 2..Len(s) :
          /\ s[k] = ">"
          /\ \A j \in 2..(k - 1) : s[j] \notin {"<", ">"}
          /\ ~(k > 2 /\ s[2] = "s")
          /\ ~(k > 2 /\ s[2] = "#" /\ \A j \in 3..(k - 1) : IsHexDigit(s[j]))

\* The tag-like substring s begins with
Bracket(s) == SubSeq(s, 1, MinOf({k \in 2..Len(s) : s[k] = ">"}))

\* C3: a tag-like substring that matches neither the style-tag grammar nor
\* the color grammar is absorbed verbatim into the literal text of a run:
\* the scan goes on, the substring is in the text of the run emitted by the
\* step, and the accumulated style is unchanged.
C3_UnrecognizedAbsorbed ==
    [][(result = "run" /\ UnrecognizedHead(rem)) =>
          /\ result' = "run"
          /\ last' = "AppendText"
          /\ style' = style
          /\ Len(elements') = Len(elements) + 1
          /\ StartsWith(elements'[Len(elements')].text, Bracket(rem))]_vars

\* ------------------------------------------------------------------------
\* C4
\* ------------------------------------------------------------------------

\* C4: style carryover: emitting text and color-set or color-reset tags
\* never change the accumulated size, font, bold or italic (<#> clears the
\* color only), and a run emitted carries the accumulated values; only a
\* parameterized style tag or a bare <s> changes them.
C4_StyleCarryover ==
    [][/\ (Takes("AppendText") \/ Takes("UpdateColor") \/ Takes("ResetColor")) =>
             NonColor(style') = NonColor(style)
       /\ Takes("ResetColor") => style'.color = None
       /\ Takes("AppendText") =>
             NonColor(elements'[Len(elements')]) = NonColor(style)
       /\ NonColor(style') # NonColor(style) =>
             (Takes("UpdateStyle") \/ Takes("ResetStyle"))]_vars

\* A run emitted after a style tag and a color reset carries the style
C4_Witness ==
    /\ result = "Ok"
    /\ Contains(input, <<"<", "#", ">">>)
    /\ Len(elements) = 1
    /\ last = "AppendText"
    /\ elements[1].size = Some(1)
    /\ elements[1].font = Some(<<"I">>)
    /\ elements[1].is_bold = Some(TRUE)
    /\ elements[1].color = None

\* ------------------------------------------------------------------------
\* C5
\* ------------------------------------------------------------------------

\* C5: the bare tag <s> is always taken as the all-reset action, never as a
\* parameterized style tag: after it size, font, is_bold and is_italic are
\* all None and the color is what it was; and no style tag, bare or
\* parameterized, changes the color.
C5_BareResetKeepsColor ==
    [][/\ (result = "run" /\ StartsWith(rem, <<"<", "s", ">">>)) =>
             /\ last' = "ResetStyle"
             /\ rem' = From(rem, 3)
             /\ NonColor(style') = <<None, None, None, None>>
             /\ style'.color = style.color
       /\ (Takes("UpdateStyle") \/ Takes("ResetStyle")) =>
             style'.color = style.color]_vars

\* <s> has just cleared a style while a color is set
C5_Witness ==
    /\ last = "ResetStyle"
    /\ Contains(input, <<"<", "s", "1", ",", "I", ",", "B", ">">>)
    /\ style.color = Some(<<"1", "B">>)
    /\ NonColor(style) = <<None, None, None, None>>

\* ------------------------------------------------------------------------
\* C6
\* ------------------------------------------------------------------------

\* C6: every run of a returned list has non-empty text; an input made only
\* of tags yields an empty run list.
C6_NoEmptyRun ==
    result = "Ok" =>
        /\ \A i \in 1..Len(elements) : elements[i].text # <<>>
        /\ Strip(input) = <<>> => elements = <<>>

\* Adjacent tags, and a tag at the end, around one run
C6_Witness ==
    /\ result = "Ok"
    /\ Len(elements) = 1
    /\ last # "AppendText"
    /\ Len(input) >= Len(elements[1].text) + 6

\* ------------------------------------------------------------------------
\* C7
\* ------------------------------------------------------------------------

\* The content of the style tag s begins with, without the leading 's':
\* the sub-tokens SIZE,FONT,FLAGS as written
TagTokens(s) == SubSeq(s, 3, MinOf(Closers(s)) - 1)

\* The positions of the commas of c
Commas(c) == {i \in 1..Len(c) : c[i] = ","}

\* The position of the k-th comma of c (k >= 1); 0 for k = 0 and
\* Len(c) + 1 when c has fewer than k commas
CommaAt(c, k) ==
    IF k = 0 THEN 0
    ELSE IF Cardinality(Commas(c)) < k THEN Len(c) + 1
    ELSE CHOOSE i \in Commas(c) : Cardinality({j \in Commas(c) : j < i}) = k - 1

\* Whether c has a k-th sub-token (k = 0, 1, 2), and that sub-token
HasToken(c, k) == Cardinality(Commas(c)) >= k

Token(c, k) == SubSeq(c, CommaAt(c, k) + 1, CommaAt(c, k + 1) - 1)

\* C7: in a parameterized style tag <sSIZE,FONT,FLAGS> each sub-token acts
\* on its own attribute only: an empty size token resets size to None, an
\* empty font token resets font to None (a non-empty one sets the font), an
\* empty flags token resets is_bold and is_italic to None, a non-empty flags
\* token sets is_bold to (contains 'B') and is_italic to (contains 'I'), and
\* a sub-token omitted by dropping trailing commas leaves its attribute at
\* the accumulated value; the color is not touched.
C7_SubTokens ==
    [][Takes("UpdateStyle") =>
          LET c == TagTokens(rem)
          IN  /\ Token(c, 0) = <<>> => style'.size = None
              /\ style'.font =
                    IF ~HasToken(c, 1) THEN style.font
                    ELSE IF Token(c, 1) = <<>> THEN None
                    ELSE Some(Token(c, 1))
              /\ <<style'.is_bold, style'.is_italic>> =
                    IF ~HasToken(c, 2) THEN <<style.is_bold, style.is_italic>>
                    ELSE IF Token(c, 2) = <<>> THEN <<None, None>>
                    ELSE <<Some(\E i \in 1..Len(Token(c, 2)) : Token(c, 2)[i] = "B"),
                           Some(\E i \in 1..Len(Token(c, 2)) : Token(c, 2)[i] = "I")>>
              /\ style'.color = style.color]_vars

\* <s1,I,B> then <s,,>: the empty tokens have reset what the first tag set
C7_Witness ==
    /\ last = "UpdateStyle"
    /\ input = <<"<", "s", "1", ",", "I", ",", "B", ">", "<", "s", ",", ",", ">">>
    /\ rem = <<>>
    /\ NonColor(style) = <<None, None, None, None>>

\* ------------------------------------------------------------------------
\* C8
\* ------------------------------------------------------------------------

\* The style tag s begins with has a size sub-token that is non-empty and
\* not a decimal number
MalformedSize(s) ==
    LET t == Token(TagTokens(s), 0)
    IN  t # <<>> /\ \E i \in 1..Len(t) : ~IsDigit(t[i])

C9_Total ==
    /\ (result = "run" /\ rem # <<>>) =>
          \E kind \in {"UpdateStyle", "ResetStyle", "UpdateColor",
                       "ResetColor", "AppendText"} : Matches(kind)
    /\ result # "Err"

\* ------------------------------------------------------------------------
\* C10
\* ------------------------------------------------------------------------

\* The units of a run list in reading order: a run that is a line break is
\* one break unit, every other run gives one unit per character, with the
\* size of the run, or the base size when the run has none
RECURSIVE CharUnits(_, _)
CharUnits(chars, size) ==
    IF chars = <<>> THEN <<>>
    ELSE <<[brk |-> FALSE, c |-> Head(chars), size |-> size]>>
            \o CharUnits(Tail(chars), size)

RECURSIVE Units(_, _)
Units(els, base) ==
    IF els = <<>> THEN <<>>
    ELSE (IF Head(els).text = <<"\\", "n">> THEN <<[brk |-> TRUE]>>
          ELSE CharUnits(Head(els).text,
                         IF Head(els).size = None THEN base
                         ELSE 100 * Head(els).size[1]))
            \o Units(Tail(els), base)

\* The positions in us of the units that are characters, in order
CharPositions(us) == {i \in 1..Len(us) : ~us[i].brk}

\* The position in us of the k-th character
CharAt(us, k) ==
    CHOOSE i \in CharPositions(us) :
        Cardinality({j \in CharPositions(us) : j < i}) = k - 1

\* The number of the line the k-th character is on: the breaks before it
LineOf(us, k) == Cardinality({j \in 1..CharAt(us, k) : us[j].brk})

\* split_text lays out the item at idx in this step
LaysOut == Reading /\ idx' = idx + 1 /\ Len(objects_to_delete') > Len(objects_to_delete)

\* C10: pass 2 emission: one placement per character; within a line (the
\* characters between two line-break runs) the first character is placed at
\* the line start x and each following character at the previous
\* character's x plus that character's resolved size plus the kerning, where
\* the resolved size is the run's size override, else the base size; y is
\* the same for all characters of a line.
C10_Pass2Emission ==
    [][LaysOut =>
          LET item == objects[selected[idx]]
              els  == parse_markup(item.text[1]).elements
              us   == Units(els, 100 * item.size[1])
              n    == Cardinality(CharPositions(us))
              new  == SubSeq(creation_infos', Len(creation_infos) + 1,
                             Len(creation_infos'))
              x0   == AnchorX(item) - Offsets(item, els).w
          IN  /\ Len(new) = n
              /\ \A k \in 1..n :
                    /\ new[k].alias.text = us[CharAt(us, k)].c
                    /\ new[k].alias.size = us[CharAt(us, k)].size
                    /\ IF k = 1 \/ LineOf(us, k) # LineOf(us, k - 1)
                       THEN new[k].alias.ox = x0
                       ELSE /\ new[k].alias.ox =
                                  new[k - 1].alias.ox + new[k - 1].alias.size
                                      + 100 * item.kern
                            /\ new[k].alias.oy = new[k - 1].alias.oy]_vars

\* Base size 10, kerning 0, one run "AB", anchor (0, 0), Left/Top: A at
\* (0, 0) and B at (10, 0)
C10_Witness ==
    /\ Len(selected) = 1
    /\ objects[1].text = Some(<<"A", "B">>)
    /\ objects[1].size = Some(10)
    /\ objects[1].kern = 0
    /\ parse_alignment(objects[1].align).hdir = "Left"
    /\ parse_alignment(objects[1].align).vdir = "Top"
    /\ Len(creation_infos) = 2
    /\ creation_infos[1].alias.text = "A"
    /\ <<creation_infos[1].alias.ox, creation_infos[1].alias.oy>> = <<0, 0>>
    /\ creation_infos[2].alias.text = "B"
    /\ <<creation_infos[2].alias.ox, creation_infos[2].alias.oy>> = <<1000, 0>>

\* A line break, a size override and a kerning in one layout
C10_WitnessBreak ==
    /\ Len(selected) = 1
    /\ objects[1].kern = 2
    /\ Len(creation_infos) = 3
    /\ creation_infos[1].alias.size = 200
    /\ creation_infos[2].alias.ox = creation_infos[1].alias.ox + 400
    /\ creation_infos[3].alias.ox = creation_infos[1].alias.ox
    /\ creation_infos[3].alias.oy > creation_infos[1].alias.oy

\* ------------------------------------------------------------------------
\* Line breaks
\* ------------------------------------------------------------------------

\* The units of one run's text when every newline escape in it, wherever it
\* stands, is one break unit and every other character one character unit
RECURSIVE EscCharUnits(_, _)
EscCharUnits(chars, size) ==
    IF chars = <<>> THEN <<>>
    ELSE IF StartsWith(chars, <<"\\", "n">>)
         THEN <<[brk |-> TRUE]>> \o EscCharUnits(From(chars, 3), size)
         ELSE <<[brk |-> FALSE, c |-> Head(chars), size |-> size]>>
                 \o EscCharUnits(Tail(chars), size)

RECURSIVE EscUnits(_, _)
EscUnits(els, base) ==
    IF els = <<>> THEN <<>>
    ELSE EscCharUnits(Head(els).text,
                      IF Head(els).size = None THEN base
                      ELSE 100 * Head(els).size[1])
            \o EscUnits(Tail(els), base)

\* C11: every newline escape of the text, wherever it stands, is a line
\* break: no placement is emitted for it, the characters after it start at
\* the line start x, and y has advanced by the base size plus the line
\* spacing for every escape before the character.
C11_EveryEscapeBreaks ==
    [][LaysOut =>
          LET item == objects[selected[idx]]
              els  == parse_markup(item.text[1]).elements
              us   == EscUnits(els, 100 * item.size[1])
              n    == Cardinality(CharPositions(us))
              new  == SubSeq(creation_infos', Len(creation_infos) + 1,
                             Len(creation_infos'))
              x0   == AnchorX(item) - Offsets(item, els).w
              y0   == AnchorY(item) - Offsets(item, els).h
          IN  /\ Len(new) = n
              /\ \A k \in 1..n :
                    /\ new[k].alias.text = us[CharAt(us, k)].c
                    /\ new[k].alias.oy =
                          y0 + LineOf(us, k) * (100 * item.size[1] + 100 * item.lnsp)
                    /\ (k = 1 \/ LineOf(us, k) # LineOf(us, k - 1))
                          => new[k].alias.ox = x0]_vars

\* ------------------------------------------------------------------------
\* Pass 1 and the alignment
\* ------------------------------------------------------------------------

\* The characters of us that are on line l, as positions in us
OnLine(us, l) ==
    {i \in CharPositions(us) : Cardinality({j \in 1..i : us[j].brk}) = l}

\* The number of the last line: the number of breaks
LastLine(us) == Cardinality({j \in 1..Len(us) : us[j].brk})

RECURSIVE SumAdvance(_, _, _)
SumAdvance(us, ps, kern) ==
    IF ps = {} THEN 0
    ELSE LET i == CHOOSE j \in ps : TRUE
         IN  us[i].size + kern + SumAdvance(us, ps \ {i}, kern)

\* The width of line l: every character advances by its size and the kerning
LineWidth(us, l, kern) == SumAdvance(us, OnLine(us, l), kern)

\* The height of line l: the largest size on it
LineHeight(us, l) ==
    IF OnLine(us, l) = {} THEN 0
    ELSE LET i == CHOOSE j \in OnLine(us, l) :
                     \A k \in OnLine(us, l) : us[k].size <= us[j].size
         IN  us[i].size

\* The width of the widest line, the final line included
BlockWidth(us, kern) ==
    LET l == CHOOSE j \in 0..LastLine(us) :
                \A k \in 0..LastLine(us) : LineWidth(us, k, kern) <= LineWidth(us, j, kern)
    IN  LineWidth(us, l, kern)

RECURSIVE SumHeights(_, _)
SumHeights(us, l) ==
    IF l < 0 THEN 0 ELSE LineHeight(us, l) + SumHeights(us, l - 1)

\* The heights of all lines, the final line included, and the line spacing
\* once per break
BlockHeight(us, lnsp) == SumHeights(us, LastLine(us)) + LastLine(us) * lnsp

\* What pass 1 measures for an item: [w, h] before the match on the alignment
Measured(item, els) ==
    LET m == Measure(els, [w |-> 0, w_temp |-> 0, h |-> 0, h_temp |-> 0],
                     F32(item.size[1]), F32(item.kern), F32(item.lnsp))
    IN  [w |-> m.w, h |-> m.h]

\* C16: for every item laid out, the width pass 1 measures is the largest,
\* over all lines with the final line, of the sum over the line's characters
\* of resolved size plus kerning, and the height is the sum over all lines
\* with the final one of the line's largest resolved size, plus the line
\* spacing once per break.
C16_Pass1Measurement ==
    \A d \in 1..Len(objects_to_delete) :
        LET item == objects[objects_to_delete[d]]
            els  == parse_markup(item.text[1]).elements
            us   == Units(els, 100 * item.size[1])
        IN  /\ Measured(item, els).w = BlockWidth(us, 100 * item.kern)
            /\ Measured(item, els).h = BlockHeight(us, 100 * item.lnsp)

\* The lines of us that are as wide as the widest
WidestLines(us, kern) ==
    {l \in 0..LastLine(us) : LineWidth(us, l, kern) = BlockWidth(us, kern)}

\* The number, among the characters, of the unit at position i of us
Ordinal(us, i) == Cardinality({j \in CharPositions(us) : j <= i})

\* The last character of line l, as its number among the characters
LastOnLine(us, l) ==
    Ordinal(us, CHOOSE i \in OnLine(us, l) : \A j \in OnLine(us, l) : j <= i)

\* C12: the pen starts at the anchor minus (ox, oy), with ox = 0, W/2, W for
\* Left, Mid, Right and oy = 0, H/2, H for Top, Center, Bottom, W and H being
\* what pass 1 measured; so under Right the last character of a widest line
\* ends, with its advance, at the anchor's x, and under Left the first
\* character is at the anchor's x.
C12_AlignmentSymmetry ==
    [][LaysOut =>
          LET item == objects[selected[idx]]
              els  == parse_markup(item.text[1]).elements
              us   == Units(els, 100 * item.size[1])
              n    == Cardinality(CharPositions(us))
              new  == SubSeq(creation_infos', Len(creation_infos) + 1,
                             Len(creation_infos'))
              al   == parse_alignment(item.align)
              W    == Measured(item, els).w
              H    == Measured(item, els).h
              ox   == CASE al.hdir = "Left" -> 0
                        [] al.hdir = "Mid" -> W \div 2
                        [] al.hdir = "Right" -> W
              oy   == CASE al.vdir = "Top" -> 0
                        [] al.vdir = "Center" -> H \div 2
                        [] al.vdir = "Bottom" -> H
          IN  n >= 1 =>
                /\ ~us[1].brk =>
                      /\ new[1].alias.ox = AnchorX(item) - ox
                      /\ new[1].alias.oy = AnchorY(item) - oy
                /\ al.hdir = "Right" =>
                      \A l \in WidestLines(us, 100 * item.kern) :
                          LET k == LastOnLine(us, l)
                          IN  new[k].alias.ox + new[k].alias.size + 100 * item.kern
                                 = AnchorX(item)
                /\ al.hdir = "Left" => new[1].alias.ox = AnchorX(item)]_vars

\* The descriptor holds the character c
HoldsChar(desc, c) == \E i \in 1..Len(desc) : desc[i] = c

\* C13: for every item laid out, the horizontal direction its descriptor is
\* parsed to is Mid when the descriptor holds neither the Left nor the Right
\* token, Left when it holds the Left token, with or without the Right one,
\* and Right when it holds the Right token only; the vertical direction is
\* Center with neither the Top nor the Bottom token, Top with the Top
\* token, Bottom with the Bottom token only.
C13_AlignmentDefaults ==
    \A d \in 1..Len(objects_to_delete) :
        LET desc == objects[objects_to_delete[d]].align
            al   == parse_alignment(desc)
        IN  /\ (~HoldsChar(desc, "L") /\ ~HoldsChar(desc, "R")) => al.hdir = "Mid"
            /\ HoldsChar(desc, "L") => al.hdir = "Left"
            /\ (HoldsChar(desc, "R") /\ ~HoldsChar(desc, "L")) => al.hdir = "Right"
            /\ (~HoldsChar(desc, "T") /\ ~HoldsChar(desc, "D")) => al.vdir = "Center"
            /\ HoldsChar(desc, "T") => al.vdir = "Top"
            /\ (HoldsChar(desc, "D") /\ ~HoldsChar(desc, "T")) => al.vdir = "Bottom"

\* An item with the empty descriptor is laid out Mid/Center: with the text
\* "A<#>\n<#>BC", size 10 and kerning 0 pass 1 measures w = 10, and the
\* first character is placed at the anchor's x minus 5
C13_Witness ==
    /\ Len(objects_to_delete) = 1
    /\ objects[objects_to_delete[1]].align = <<>>
    /\ parse_alignment(<<>>).hdir = "Mid"
    /\ parse_alignment(<<>>).vdir = "Center"
    /\ objects[objects_to_delete[1]].kern = 0
    /\ Len(creation_infos) = 3
    /\ creation_infos[1].alias.text = "A"
    /\ creation_infos[1].alias.ox = -500

\* An item whose descriptor holds all four tokens is laid out Left/Top
C13_WitnessBoth ==
    /\ Len(objects_to_delete) = 1
    /\ objects[objects_to_delete[1]].align = <<"L", "R", "D", "T">>
    /\ parse_alignment(objects[objects_to_delete[1]].align).hdir = "Left"
    /\ parse_alignment(objects[objects_to_delete[1]].align).vdir = "Top"
    /\ Len(creation_infos) = 3
    /\ creation_infos[1].alias.ox = 0
    /\ creation_infos[1].alias.oy = 0

\* ------------------------------------------------------------------------
\* Phase 2
\* ------------------------------------------------------------------------

\* Phase 1 has ended without an error
Phase2 == ret = "run" /\ idx > Len(selected)

\* The host creates an item in this step
Creates == Len(created') > Len(created)

\* C14: an item is created for the next creation info, as that info says
\* but for the layer, on the lowest layer at or above the requested one that
\* the host does not refuse, all layers from the requested one up to it
\* having been refused; and once phase 1 has ended without an error, the
\* items of all creation infos are eventually created, one for each, in
\* order.
C14_LayerRetry ==
    /\ [][Creates =>
            LET k    == Len(created) + 1
                info == creation_infos[k]
                c    == created'[k]
            IN  /\ created' = Append(created, c)
                /\ c = [info EXCEPT !.layer = c.layer]
                /\ c.layer >= info.layer
                /\ ~HostCreateFails(c.layer, info.start, info.length)
                /\ \A q \in info.layer..(c.layer - 1) :
                      HostCreateFails(q, info.start, info.length)]_vars
    /\ [][Len(created') >= Len(created)]_vars
    /\ [](Len(created) <= Len(creation_infos))
    /\ Phase2 ~> (Len(created) = Len(creation_infos))

\* Two items on the layers 0 and 2, the first with the text "A<s2>BC": its
\* 'A' requests layer 1 and is created there; its 'B' requests layer 2,
\* which the second item occupies, and is created on layer 3; its 'C'
\* requests layer 3, now occupied by 'B', and is created on layer 4
C14_Witness ==
    /\ ret = "Ok"
    /\ Len(selected) = 2
    /\ objects[2].text = None
    /\ objects[2].layer = 2
    /\ Len(creation_infos) = 3
    /\ <<creation_infos[1].layer, creation_infos[2].layer, creation_infos[3].layer>>
          = <<1, 2, 3>>
    /\ Len(created) = 3
    /\ <<created[1].layer, created[2].layer, created[3].layer>> = <<1, 3, 4>>

C17_Ordinals ==
    [][LaysOut =>
          LET item == objects[selected[idx]]
              els  == parse_markup(item.text[1]).elements
              us   == Units(els, 100 * item.size[1])
              n    == Cardinality(CharPositions(us))
              new  == SubSeq(creation_infos', Len(creation_infos) + 1,
                             Len(creation_infos'))
          IN  /\ Len(new) = n
              /\ \A k \in 0..(n - 1) :
                    /\ new[k + 1].layer = item.layer + 1 + k
                    /\ new[k + 1].alias.text = us[CharAt(us, k + 1)].c
              /\ \A j, k \in 1..n : j < k => new[j].layer < new[k].layer]_vars

\* The second item, on layer 2, has the text "A<#>\n<#>BC": 'A' requests
\* layer 3, and 'B', after the line break, layer 4, 'C' layer 5
C17_Witness ==
    /\ Len(selected) = 2
    /\ objects[1].text = None
    /\ objects[2].layer = 2
    /\ objects[2].text = Some(<<"A", "<", "#", ">", "\\", "n", "<", "#", ">", "B", "C">>)
    /\ Len(creation_infos) = 3
    /\ <<creation_infos[1].layer, creation_infos[2].layer, creation_infos[3].layer>>
          = <<3, 4, 5>>
    /\ creation_infos[2].alias.text = "B"
    /\ creation_infos[2].alias.oy > creation_infos[1].alias.oy

\* The runs the characters belong to, in reading order: the index in els of
\* the run of each character, the line-break runs having none
RECURSIVE Owners(_, _)
Owners(els, i) ==
    IF i > Len(els) THEN <<>>
    ELSE (IF els[i].text = <<"\\", "n">> THEN <<>>
          ELSE [j \in 1..Len(els[i].text) |-> i])
            \o Owners(els, i + 1)

\* C18: the size, font, color, bold and italic of every placement are those
\* of the run of its character where the run has one (a bold or italic flag
\* that is set gives "1", one that is cleared "0"), and those stored on the
\* source item where the run has none; the outline color, the decoration
\* style, z, the opacity and the blend mode are those of the source item.
C18_StyleFallback ==
    [][LaysOut =>
          LET item == objects[selected[idx]]
              els  == parse_markup(item.text[1]).elements
              own  == Owners(els, 1)
              new  == SubSeq(creation_infos', Len(creation_infos) + 1,
                             Len(creation_infos'))
          IN  /\ Len(new) = Len(own)
              /\ \A k \in 1..Len(new) :
                    LET el == els[own[k]]
                        a  == new[k].alias
                    IN  /\ a.size = IF el.size # None THEN 100 * el.size[1]
                                    ELSE 100 * item.size[1]
                        /\ a.font = IF el.font # None THEN el.font[1] ELSE item.font
                        /\ a.color = IF el.color # None THEN el.color[1] ELSE item.color
                        /\ a.bold = IF el.is_bold = None THEN item.bold
                                    ELSE IF el.is_bold[1] THEN "1" ELSE "0"
                        /\ a.italic = IF el.is_italic = None THEN item.italic
                                      ELSE IF el.is_italic[1] THEN "1" ELSE "0"
                        /\ a.subcolor = item.subcolor
                        /\ a.style = item.style
                        /\ a.oz = 100 * item.z
                        /\ a.alpha = item.alpha
                        /\ a.blend = item.blend]_vars

\* The text "<s2>AB<s>\n<#1B>C": 'A' has the size 2 of its run and the font,
\* color, bold and italic of the item; 'C', after the reset, has the size of
\* the item and the color 1B of its run
C18_Witness ==
    /\ Len(selected) = 1
    /\ Len(creation_infos) = 3
    /\ creation_infos[1].alias.text = "A"
    /\ creation_infos[1].alias.size = 200
    /\ creation_infos[1].alias.font = objects[1].font
    /\ creation_infos[1].alias.color = objects[1].color
    /\ creation_infos[1].alias.bold = "0"
    /\ creation_infos[1].alias.italic = "1"
    /\ creation_infos[3].alias.text = "C"
    /\ creation_infos[3].alias.size = 1000
    /\ creation_infos[3].alias.color = <<"1", "B">>

\* The text "<s1,I,B>A": the run's font I, bold set and italic cleared
C18_WitnessFlags ==
    /\ Len(selected) = 1
    /\ Len(creation_infos) = 1
    /\ creation_infos[1].alias.size = 100
    /\ creation_infos[1].alias.font = <<"I">>
    /\ creation_infos[1].alias.bold = "1"
    /\ creation_infos[1].alias.italic = "0"

\* ------------------------------------------------------------------------
\* Errors
\* ------------------------------------------------------------------------

\* The item cannot be laid out: its text is read, and its markup does not
\* parse or its size cannot be read
Fails(item) ==
    /\ item.text # None
    /\ \/ ~parse_markup(item.text[1]).ok
       \/ item.size = None

\* C19: when split_text has returned an error, no item has been created and
\* every item of the document is still there, those laid out before the
\* failing one too; split_text returns Ok only if no selected item fails to
\* parse or to give its size; and an item whose text cannot be read is never
\* put among the items to delete and never deleted.
C19_AllOrNothing ==
    /\ ret = "Err" =>
          /\ created = <<>>
          /\ \A h \in DOMAIN objects : objects[h].alive
          /\ Fails(objects[selected[idx]])
    /\ ret = "Ok" => \A i \in 1..Len(selected) : ~Fails(objects[selected[i]])
    /\ \A h \in DOMAIN objects :
          objects[h].text = None =>
              /\ objects[h].alive
              /\ \A d \in 1..Len(objects_to_delete) : objects_to_delete[d] # h

\* The first item, "AB", is laid out, the markup of the second does not
\* parse: split_text has returned the error, two creation infos were
\* pushed, nothing is created and both items are there
C19_Witness ==
    /\ ret = "Err"
    /\ Len(selected) = 2
    /\ idx = 2
    /\ objects[1].text = Some(<<"A", "B">>)
    /\ objects[2].text = Some(<<"A", "<", "#">>)
    /\ objects_to_delete = <<1>>
    /\ Len(creation_infos) = 2
    /\ created = <<>>
    /\ objects[1].alive /\ objects[2].alive

\* An item whose text cannot be read is passed over and the item after it
\* is split and deleted
C19_WitnessSkip ==
    /\ ret = "Ok"
    /\ Len(selected) = 2
    /\ objects[1].text = None
    /\ objects[1].alive
    /\ objects_to_delete = <<2>>
    /\ ~objects[2].alive
    /\ Len(created) = 2

\* ------------------------------------------------------------------------
\* The layers of the created items
\* ------------------------------------------------------------------------

\* The number of creation infos of the d-th item laid out
InfoCount(d) ==
    Len(Owners(parse_markup(objects[objects_to_delete[d]].text[1]).elements, 1))

\* The numbers of creation infos of the items laid out, as a sequence
RECURSIVE InfoCounts(_)
InfoCounts(d) ==
    IF d > Len(objects_to_delete) THEN <<>>
    ELSE <<InfoCount(d)>> \o InfoCounts(d + 1)

\* The k-th of the creation infos of items with the given numbers of
\* creation infos is the last one of its item
RECURSIVE IsLastOfItem(_, _)
IsLastOfItem(counts, k) ==
    /\ counts # <<>>
    /\ IF k <= Head(counts) THEN k = Head(counts)
       ELSE IsLastOfItem(Tail(counts), k - Head(counts))

\* C20: with a host that refuses exactly the layers occupied in the frame
\* range, the items created for one source item lie on strictly increasing
\* layers in the order of their creation infos: each lies above the one
\* created before it for the same source item, whether or not either was
\* moved up.
C20_StackingOrder ==
    \A k \in 2..Len(created) :
        ~IsLastOfItem(InfoCounts(1), k - 1) => created[k - 1].layer < created[k].layer

\* Two items on the layers 0 and 1, the first with the text "AB": 'A'
\* requests layer 1, occupied by the second item, and is created on layer
\* 2, the layer 'B' requests; 'B' is created on layer 3
C20_Witness ==
    /\ Len(selected) = 2
    /\ objects[1].text = Some(<<"A", "B">>)
    /\ objects[2].text = None
    /\ objects[2].layer = 1
    /\ Len(created) = 2
    /\ creation_infos[1].layer = 1
    /\ created[1].layer = 2
    /\ creation_infos[2].layer = 2
    /\ created[2].layer = 3


====
